---- MODULE Spec2Model ----
(***************************************************************************)
(* Model of examples/code-comment-translator/output.py (and of its         *)
(* Japanese twin input.py, which has the same code under other names):     *)
(* load_data, and the class TimeSeriesAnalysis with                        *)
(* calculate_moving_average, display_trend and detect_seasonality.         *)
(*                                                                         *)
(* A float64 cell is NaN or an exact rational [num, den] in lowest terms;  *)
(* rounding is not modelled.  A pandas Series is a sequence of cells, a    *)
(* DataFrame is [index, columns, values].  A CSV number is its sequence of *)
(* decimal digits, a CSV date is <<year, month, day>>.                     *)
(***************************************************************************)
EXTENDS Integers, Sequences, FiniteSets, TLC

VARIABLES file, phase, df, data, column_list, last, probe

vars == <<file, phase, df, data, column_list, last, probe>>

----------------------------------------------------------------------------
(* Bounds of the model *)

MaxLen == 61          \* longest generated file (rows)
MaxSmallLen == 2      \* files up to this length are enumerated row by row
MaxDigit == 2         \* largest digit of a generated cell
MaxWindow == 2        \* window sizes -1..MaxWindow are tried, and 7 and 30

----------------------------------------------------------------------------
(* float64 *)

NaN == [nan |-> TRUE]

isna(x) == x = NaN

Abs(n) == IF n < 0 THEN -n ELSE n

RECURSIVE GCD(_, _)
GCD(a, b) == IF b = 0 THEN a ELSE GCD(b, a % b)

\* the float n/d, d > 0
Float(n, d) ==
    LET g == GCD(Abs(n), d)
    IN  [num |-> n \div g, den |-> d \div g]

----------------------------------------------------------------------------
(* The CSV file and pd.read_csv / pd.to_datetime *)

DaysInMonth == <<31, 28, 31, 30, 31, 30, 31, 31, 30, 31, 30, 31>>

RECURSIVE DaysBefore(_)
DaysBefore(m) == IF m = 1 THEN 0 ELSE DaysBefore(m - 1) + DaysInMonth[m - 1]

\* pd.to_datetime of one date text: days since 2023-01-01, or NaN for a text
\* that is no date (to_datetime raises on it)
ParseDate(t) ==
    IF /\ t[1] = 2023
       /\ t[2] \in 1..12
       /\ t[3] >= 1
       /\ t[3] <= DaysInMonth[t[2]]
    THEN Float(DaysBefore(t[2]) + t[3] - 1, 1)
    ELSE NaN

RECURSIVE DigitsValue(_)
DigitsValue(ds) ==
    IF ds = <<>> THEN 0
    ELSE 10 * DigitsValue(SubSeq(ds, 1, Len(ds) - 1)) + ds[Len(ds)]

\* read_csv of one numeric cell: the empty cell is NaN
ParseCell(ds) == IF ds = <<>> THEN NaN ELSE Float(DigitsValue(ds), 1)

Range(s) == {s[i] : i \in DOMAIN s}

IndexOf(s, x) == CHOOSE i \in DOMAIN s : s[i] = x

Remove(s, x) == LET k == IndexOf(s, x)
                IN  [i \in 1..(Len(s) - 1) |-> IF i < k THEN s[i] ELSE s[i + 1]]

Raise(exc) == [kind |-> "raise", exc |-> exc]

Return(v) == [kind |-> "return", value |-> v]

NoFrame == [index |-> <<>>, columns |-> <<>>, values |-> <<>>]

\* pd.to_datetime of the date column of the file
to_datetime(f, date_column) ==
    [i \in 1..Len(f.rows) |-> ParseDate(f.rows[i][IndexOf(f.header, date_column)])]

\* read_csv and set_index: the dates as index, the other fields as columns
set_index(f, date_column) ==
    LET cols == Remove(f.header, date_column)
    IN  [index |-> to_datetime(f, date_column),
         columns |-> cols,
         values |-> [j \in 1..Len(cols) |->
                       [i \in 1..Len(f.rows) |->
                          ParseCell(f.rows[i][IndexOf(f.header, cols[j])])]]]

\* DataFrame.sort_index(): the rows in the order of their dates
sort_index(frame) ==
    LET n == Len(frame.index)
        ordered(p) == \A i, j \in 1..n : i < j => frame.index[p[i]].num <= frame.index[p[j]].num
        p == IF ordered([i \in 1..n |-> i]) THEN [i \in 1..n |-> i]
             ELSE CHOOSE q \in Permutations(1..n) : ordered(q)
    IN  [index |-> [i \in 1..n |-> frame.index[p[i]]],
         columns |-> frame.columns,
         values |-> [j \in DOMAIN frame.values |-> [i \in 1..n |-> frame.values[j][p[i]]]]]

\* load_data that sorts the frame by its index
load_data_sorted(f, date_column) ==
    IF date_column \notin Range(f.header)
    THEN Raise("KeyError")
    ELSE IF \E i \in DOMAIN f.rows : isna(to_datetime(f, date_column)[i])
         THEN Raise("ValueError")
         ELSE Return(sort_index(set_index(f, date_column)))

\* load_data(file_path, date_column) on the file f = [header, rows]
load_data(f, date_column) ==
    IF date_column \notin Range(f.header)
    THEN Raise("KeyError")
    ELSE IF \E i \in DOMAIN f.rows : isna(to_datetime(f, date_column)[i])
         THEN Raise("ValueError")
         ELSE Return(set_index(f, date_column))

\* DataFrame.__getitem__ with a column name that exists
Column(frame, name) == frame.values[IndexOf(frame.columns, name)]

\* DataFrame.__getitem__
getitem(frame, name) ==
    IF name \in Range(frame.columns)
    THEN Return(Column(frame, name))
    ELSE Raise("KeyError")

----------------------------------------------------------------------------
(* pandas: Series.rolling(window).mean(), Series.dropna(), Series.autocorr *)

FAdd(a, b) == Float(a.num * b.den + b.num * a.den, a.den * b.den)

Zero == Float(0, 1)

Max(a, b) == IF a > b THEN a ELSE b

\* the observations (the entries that are not NaN) among the positions lo..hi
\* of values: how many there are, and their sum
RECURSIVE observations(_, _, _)
observations(values, lo, hi) ==
    IF lo > hi THEN [nobs |-> 0, sum_x |-> Zero]
    ELSE IF lo = hi
         THEN IF isna(values[lo]) THEN [nobs |-> 0, sum_x |-> Zero]
              ELSE [nobs |-> 1, sum_x |-> values[lo]]
    ELSE LET mid == (lo + hi) \div 2
             l == observations(values, lo, mid)
             r == observations(values, mid + 1, hi)
         IN  [nobs |-> l.nobs + r.nobs, sum_x |-> FAdd(l.sum_x, r.sum_x)]

\* the mean of a window: NaN with fewer than minp observations, or with none
calc_mean(minp, acc) ==
    IF acc.nobs >= minp /\ acc.nobs > 0
    THEN Float(acc.sum_x.num, acc.sum_x.den * acc.nobs)
    ELSE NaN

\* rolling(window, min_periods=1): a mean over whatever the window holds
rolling_mean_partial(values, window) ==
    IF window < 0
    THEN Raise("ValueError")
    ELSE Return([i \in 1..Len(values) |->
                    calc_mean(1, observations(values, Max(1, i - window + 1), i))])

\* Series.rolling(window=window).mean(): the window of position i holds the
\* last window positions up to i; min_periods defaults to the window size; a
\* negative window is refused
rolling_mean(values, window) ==
    IF window < 0
    THEN Raise("ValueError")
    ELSE Return([i \in 1..Len(values) |->
                    calc_mean(window, observations(values, Max(1, i - window + 1), i))])

notna(x) == ~isna(x)

\* the nulls are kept
dropna_keep(values) == values

dropna(values) == SelectSeq(values, notna)

shift(values, periods) ==
    [i \in 1..Len(values) |-> IF i <= periods THEN NaN ELSE values[i - periods]]

\* the sum of a[i] * b[i] over the positions lo..hi of two integer arrays
RECURSIVE Dot(_, _, _, _)
Dot(a, b, lo, hi) ==
    IF lo > hi THEN 0
    ELSE IF lo = hi THEN a[lo].num * b[lo].num
    ELSE LET mid == (lo + hi) \div 2
         IN  Dot(a, b, lo, mid) + Dot(a, b, mid + 1, hi)

Ones(values) == [i \in 1..Len(values) |-> Float(1, 1)]

\* np.corrcoef(a, b)[0, 1] for integer-valued a, b: the coefficient
\* cov / sqrt(rad), clipped to [-1, 1]; NaN when a variance is zero
corrcoef(a, b) ==
    LET n == Len(a)
        sa == Dot(a, Ones(a), 1, n)
        sb == Dot(b, Ones(b), 1, n)
        cab == n * Dot(a, b, 1, n) - sa * sb
        caa == n * Dot(a, a, 1, n) - sa * sa
        cbb == n * Dot(b, b, 1, n) - sb * sb
    IN  IF n < 2 \/ caa * cbb = 0 THEN NaN
        ELSE IF cab * cab > caa * cbb
             THEN [cov |-> IF cab > 0 THEN 1 ELSE -1, rad |-> 1]
             ELSE [cov |-> cab, rad |-> caa * cbb]

BothValid(pair) == notna(pair[1]) /\ notna(pair[2])

\* nanops.nancorr: only the positions where both are present, min_periods 1
nancorr(a, b) ==
    LET pairs == SelectSeq([i \in 1..Len(a) |-> <<a[i], b[i]>>], BothValid)
    IN  IF Len(pairs) < 1 THEN NaN
        ELSE corrcoef([i \in 1..Len(pairs) |-> pairs[i][1]],
                      [i \in 1..Len(pairs) |-> pairs[i][2]])

\* Series.autocorr(lag) == self.corr(self.shift(lag))
autocorr(values, lag) ==
    IF Len(values) = 0 THEN NaN ELSE nancorr(values, shift(values, lag))

----------------------------------------------------------------------------
(* class TimeSeriesAnalysis: what a call returns or raises, and the calls  *)
(* it makes to matplotlib.pyplot                                           *)

calculate_moving_average(d, cl, column_name, window_size) ==
    IF column_name \notin Range(cl)
    THEN Raise("ValueError")
    ELSE rolling_mean(Column(d, column_name), window_size)

Candidates == <<[lag |-> 1, label |-> "daily"],
                [lag |-> 7, label |-> "weekly"],
                [lag |-> 30, label |-> "monthly"]>>

\* the comparison turned round
Enough_flipped(n, lag) == n < lag * 2

Enough(n, lag) == n > lag * 2

\* the loop of detect_seasonality over the candidates k..3
RECURSIVE seasonality_loop(_, _, _)
seasonality_loop(values, k, results) ==
    IF k > Len(Candidates) THEN results
    ELSE LET c == Candidates[k]
         IN  seasonality_loop(values, k + 1,
                IF Enough(Len(values), c.lag)
                THEN [l \in DOMAIN results \cup {c.label} |->
                        IF l = c.label THEN autocorr(values, c.lag) ELSE results[l]]
                ELSE results)

detect_seasonality(d, column_name) ==
    LET col == getitem(d, column_name)
    IN  IF col.kind = "raise" THEN col
        ELSE Return(seasonality_loop(dropna(col.value), 1, <<>>))

NoTitle == <<>>

Plot(x, y, label) == [fn |-> "plot", x |-> x, y |-> y, label |-> label]

Call(fn) == [fn |-> fn]

\* display_trend: [outcome, calls], calls being the pyplot calls made, in order
display_trend(d, cl, column_name, title) ==
    LET t == IF title = NoTitle THEN <<"Trend analysis of ", column_name>> ELSE title
        c1 == <<Call("figure")>>
        col == getitem(d, column_name)
        ma7 == calculate_moving_average(d, cl, column_name, 7)
        ma30 == calculate_moving_average(d, cl, column_name, 30)
    IN  IF col.kind = "raise" THEN [outcome |-> col, calls |-> c1]
        ELSE LET c2 == Append(c1, Plot(d.index, col.value, "Original Data"))
             IN  IF ma7.kind = "raise" THEN [outcome |-> ma7, calls |-> c2]
                 ELSE IF ma30.kind = "raise" THEN [outcome |-> ma30, calls |-> c2]
                 ELSE [outcome |-> Return(<<>>),
                       calls |-> c2 \o <<Plot(d.index, ma7.value, "7-day Moving Average"),
                                         Plot(d.index, ma30.value, "30-day Moving Average"),
                                         [fn |-> "title", label |-> t],
                                         Call("legend"), Call("grid"),
                                         Call("tight_layout"), Call("show")>>]

----------------------------------------------------------------------------
(* The files that are loaded *)

RECURSIVE DateText(_, _)
\* the date k days after the first of month m of 2023
DateText(k, m) ==
    IF k < DaysInMonth[m] THEN <<2023, m, k + 1>> ELSE DateText(k - DaysInMonth[m], m + 1)

\* a constant column, a varying one, and a varying one with every third cell
\* empty
Patterns == {[mod |-> 1, hole |-> 0],
             [mod |-> MaxDigit + 1, hole |-> 0],
             [mod |-> MaxDigit + 1, hole |-> 3]}

\* the lengths on both sides of each candidate's threshold, and the longest
Lengths == {n \in 0..MaxLen : \/ n = MaxLen
                              \/ \E k \in DOMAIN Candidates :
                                    n \in {2 * Candidates[k].lag, 2 * Candidates[k].lag + 1}}

PatternCell(p, i) ==
    IF p.hole > 0 /\ i % p.hole = 0 THEN <<>> ELSE <<(i + i \div 7) % p.mod>>

GeneratedFiles ==
    {[header |-> <<"date", "sales">>,
      rows |-> [i \in 1..n |-> <<DateText(i - 1, 1), PatternCell(p, i)>>]] :
        n \in Lengths, p \in Patterns}

Headers == {<<"date", "sales">>, <<"sales", "temp", "date">>, <<"day", "sales">>}

\* the rows of the small files: a date with a number, an earlier date with an
\* empty cell, and a text that is no date
SmallRows == {<<<<2023, 1, 2>>, <<1, 2>>>>,
              <<<<2023, 1, 1>>, <<>>>>,
              <<<<2023, 2, 30>>, <<3>>>>}

\* a row of a small file: the field "temp" is empty exactly when "sales" is not
SmallRow(h, date, cell) ==
    [k \in DOMAIN h |->
        IF h[k] \in {"date", "day"} THEN date
        ELSE IF h[k] = "sales" THEN cell
        ELSE IF cell = <<>> THEN <<7>> ELSE <<>>]

SmallFiles ==
    UNION {{[header |-> h, rows |-> [i \in 1..n |-> SmallRow(h, r[i][1], r[i][2])]] :
              r \in [1..n -> SmallRows], h \in Headers} :
           n \in 0..MaxSmallLen}

Files == GeneratedFiles \cup SmallFiles

DateColumns == {"date", "day"}

\* the column names a caller passes: the columns of the frame and one more
ColumnNames(frame) == Range(frame.columns) \cup {"price"}

WindowSizes == (-1..MaxWindow) \cup {7, 30}

Titles == {NoTitle, <<"Time Series Analysis of Sales Data">>}

----------------------------------------------------------------------------
(* The state machine *)

NoCall == [op |-> "none", column_name |-> "", window_size |-> 0]

Init ==
    /\ file \in Files
    /\ phase = "file"
    /\ df = NoFrame
    /\ data = NoFrame
    /\ column_list = <<>>
    /\ last = NoCall
    /\ probe = NoCall

\* df = load_data(file_path, date_column)
LoadData(date_column) ==
    /\ phase = "file"
    /\ LET r == load_data(file, date_column)
       IN  /\ last' = [op |-> "load_data", date_column |-> date_column, outcome |-> r]
           /\ IF r.kind = "return"
              THEN df' = r.value /\ phase' = "loaded"
              ELSE df' = df /\ phase' = "failed"
    /\ UNCHANGED <<file, data, column_list, probe>>

\* TimeSeriesAnalysis(df)
Construct ==
    /\ phase = "loaded"
    /\ data' = df
    /\ column_list' = df.columns
    /\ phase' = "ready"
    /\ UNCHANGED <<file, df, last, probe>>

SameCall(a, b) ==
    /\ a.op = b.op
    /\ a.column_name = b.column_name
    /\ a.window_size = b.window_size

\* probe is an observer's note of one earlier calculate_moving_average call
\* (any one: the observer may let a call pass)
Observe(p, call) == IF p = NoCall THEN {p, call} ELSE {p}

\* calculate_moving_average that writes the averages over the column
CalculateMovingAverage_store(column_name, window_size) ==
    /\ phase = "ready"
    /\ LET call == [op |-> "calculate_moving_average",
                    column_name |-> column_name,
                    window_size |-> window_size,
                    outcome |-> calculate_moving_average(data, column_list,
                                                         column_name, window_size),
                    calls |-> <<>>,
                    repeats |-> FALSE]
       IN  /\ last' = [call EXCEPT !.repeats = SameCall(probe, call)]
           /\ probe' \in Observe(probe, call)
           /\ data' = IF call.outcome.kind = "return"
                      THEN [data EXCEPT !.values[IndexOf(data.columns, column_name)] =
                                            call.outcome.value]
                      ELSE data
    /\ UNCHANGED <<file, phase, df, column_list>>

\* repeats says that the call is the one the observer noted earlier, made again
CalculateMovingAverage(column_name, window_size) ==
    /\ phase = "ready"
    /\ LET call == [op |-> "calculate_moving_average",
                    column_name |-> column_name,
                    window_size |-> window_size,
                    outcome |-> calculate_moving_average(data, column_list,
                                                         column_name, window_size),
                    calls |-> <<>>,
                    repeats |-> FALSE]
       IN  /\ last' = [call EXCEPT !.repeats = SameCall(probe, call)]
           /\ probe' \in Observe(probe, call)
    /\ UNCHANGED <<file, phase, df, data, column_list>>

DisplayTrend(column_name, title) ==
    /\ phase = "ready"
    /\ LET r == display_trend(data, column_list, column_name, title)
       IN  last' = [op |-> "display_trend",
                    column_name |-> column_name,
                    title |-> title,
                    outcome |-> r.outcome,
                    calls |-> r.calls]
    /\ UNCHANGED <<file, phase, df, data, column_list, probe>>

\* detect_seasonality with dropna(inplace=True) on the column of the frame
DetectSeasonality_inplace(column_name) ==
    /\ phase = "ready"
    /\ last' = [op |-> "detect_seasonality",
                column_name |-> column_name,
                outcome |-> detect_seasonality(data, column_name),
                calls |-> <<>>]
    /\ data' = IF column_name \in Range(data.columns)
               THEN [data EXCEPT !.values[IndexOf(data.columns, column_name)] =
                                     dropna(Column(data, column_name))]
               ELSE data
    /\ UNCHANGED <<file, phase, df, column_list, probe>>

DetectSeasonality(column_name) ==
    /\ phase = "ready"
    /\ last' = [op |-> "detect_seasonality",
                column_name |-> column_name,
                outcome |-> detect_seasonality(data, column_name),
                calls |-> <<>>]
    /\ UNCHANGED <<file, phase, df, data, column_list, probe>>

Next ==
    \/ \E dc \in DateColumns : LoadData(dc)
    \/ Construct
    \/ \E c \in ColumnNames(data), w \in WindowSizes : CalculateMovingAverage(c, w)
    \/ \E c \in ColumnNames(data), t \in Titles : DisplayTrend(c, t)
    \/ \E c \in ColumnNames(data) : DetectSeasonality(c)

Spec == Init /\ [][Next]_vars

----------------------------------------------------------------------------
(* Properties *)

Existing(name) == name \in Range(column_list)

\* the sum of the entries lo..hi of a column of integers
RECURSIVE WindowSum(_, _, _)
WindowSum(values, lo, hi) ==
    IF lo > hi THEN 0 ELSE values[hi].num + WindowSum(values, lo, hi - 1)

WindowMean(values, i, w) == Float(WindowSum(values, i - w + 1, i), w)

Integral(values) == \A i \in DOMAIN values : isna(values[i]) \/ values[i].den = 1

\* C1: for an existing column and a window size w >= 1, the moving average has
\* the length of the column; entry i is the mean of the entries i-w+1..i when
\* there are w of them and none is null, and null otherwise
C1_MovingAverage ==
    (/\ last.op = "calculate_moving_average"
     /\ Existing(last.column_name)
     /\ last.window_size >= 1)
    => LET col == Column(data, last.column_name)
           w == last.window_size
       IN  /\ Integral(col)
           /\ last.outcome.kind = "return"
           /\ Len(last.outcome.value) = Len(col)
           /\ \A i \in 1..Len(col) :
                last.outcome.value[i] =
                    IF i >= w /\ \A j \in (i - w + 1)..i : notna(col[j])
                    THEN WindowMean(col, i, w)
                    ELSE NaN

\* a moving average over 2 entries with a window that holds a null behind the
\* first full window, and a mean that is no integer
C1_Witness ==
    /\ last.op = "calculate_moving_average"
    /\ Existing(last.column_name)
    /\ last.window_size = 2
    /\ last.outcome.kind = "return"
    /\ \E i, j \in 2..Len(last.outcome.value) :
          /\ isna(last.outcome.value[i])
          /\ notna(last.outcome.value[j])
          /\ last.outcome.value[j].den = 2

IsError(exc) == last.outcome.kind = "raise" /\ last.outcome.exc = exc

\* C2: with a column name that is not in the captured list, moving_average and
\* detect_seasonality fail alike, with the error of the column-name check
\* (the check of calculate_moving_average raises ValueError), nothing computed
C2_UnknownColumn ==
    (/\ last.op \in {"calculate_moving_average", "detect_seasonality"}
     /\ ~Existing(last.column_name))
    => IsError("ValueError")

\* C3: for an existing column a window size of zero or less is an error
C3_InvalidWindow ==
    (/\ last.op = "calculate_moving_average"
     /\ Existing(last.column_name)
     /\ last.window_size <= 0)
    => last.outcome.kind = "raise"

NonNull(values) == Cardinality({i \in DOMAIN values : notna(values[i])})

Labels == {"daily", "weekly", "monthly"}

DetectedOn(name) ==
    /\ last.op = "detect_seasonality"
    /\ last.column_name = name
    /\ Existing(name)

\* C4: for an existing column the report holds the label of lag 1, 7, 30
\* exactly when the column has more than twice that many non-null entries, and
\* no other label; too little data is no error
C4_ReportLabels ==
    \A name \in Range(column_list) :
        DetectedOn(name)
        => LET n == NonNull(Column(data, name))
           IN  /\ last.outcome.kind = "return"
               /\ DOMAIN last.outcome.value \subseteq Labels
               /\ "daily" \in DOMAIN last.outcome.value <=> n > 2 * 1
               /\ "weekly" \in DOMAIN last.outcome.value <=> n > 2 * 7
               /\ "monthly" \in DOMAIN last.outcome.value <=> n > 2 * 30

\* a column of more than 60 entries of which too few are non-null for the
\* monthly lag, and enough for the weekly one
C4_Witness ==
    \E name \in Range(column_list) :
        /\ DetectedOn(name)
        /\ Len(Column(data, name)) > 60
        /\ last.outcome.kind = "return"
        /\ "weekly" \in DOMAIN last.outcome.value
        /\ "monthly" \notin DOMAIN last.outcome.value

InUnitInterval(r) == notna(r) /\ r.cov * r.cov <= r.rad

\* C5: every value of a report is a defined coefficient in [-1, 1]
C5_CoefficientRange ==
    (last.op = "detect_seasonality" /\ last.outcome.kind = "return")
    => \A l \in DOMAIN last.outcome.value : InUnitInterval(last.outcome.value[l])

\* C6: a moving average asked for again, with the column name and window size
\* of an earlier call and any calls in between, has the outcome of that call
C6_Idempotent ==
    (last.op = "calculate_moving_average" /\ last.repeats)
    => last.outcome = probe.outcome

\* a repeated call that returned a series with a defined mean
C6_Witness ==
    /\ last.op = "calculate_moving_average"
    /\ last.repeats
    /\ last.outcome.kind = "return"
    /\ \E i \in DOMAIN last.outcome.value : notna(last.outcome.value[i])

\* C7: once the object is constructed no call changes the frame it holds or
\* the captured column list
C7_DatasetUnchanged ==
    [][phase = "ready" => (data' = data /\ column_list' = column_list)]_vars

\* detect_seasonality has dropped nulls of a column and returned a report, and
\* the column still holds its nulls
C7_Witness ==
    \E name \in Range(column_list) :
        /\ DetectedOn(name)
        /\ last.outcome.kind = "return"
        /\ "daily" \in DOMAIN last.outcome.value
        /\ \E i \in DOMAIN Column(data, name) : isna(Column(data, name)[i])
        /\ data = df

DatesValid(f, k) == \A i \in DOMAIN f.rows : notna(ParseDate(f.rows[i][k]))

\* C8: loading a file whose rows have the date field (and dates in it) gives
\* a frame whose index is the dates of the rows in row order, whose columns
\* are the other fields, each as long as the index, with entry i from row i
C8_LoadData ==
    (/\ last.op = "load_data"
     /\ last.date_column \in Range(file.header)
     /\ DatesValid(file, IndexOf(file.header, last.date_column)))
    => LET k == IndexOf(file.header, last.date_column)
       IN  /\ last.outcome.kind = "return"
           /\ df = last.outcome.value
           /\ Len(df.index) = Len(file.rows)
           /\ \A i \in DOMAIN file.rows : df.index[i] = ParseDate(file.rows[i][k])
           /\ Range(df.columns) = Range(file.header) \ {last.date_column}
           /\ Len(df.columns) = Len(file.header) - 1
           /\ DOMAIN df.values = DOMAIN df.columns
           /\ \A j \in DOMAIN df.columns :
                /\ Len(df.values[j]) = Len(df.index)
                /\ \A i \in DOMAIN file.rows :
                     df.values[j][i] =
                        ParseCell(file.rows[i][IndexOf(file.header, df.columns[j])])

\* two rows loaded with the later date first, and a column after the date
C8_Witness ==
    /\ last.op = "load_data"
    /\ last.outcome.kind = "return"
    /\ Len(df.index) = 2
    /\ df.index[1].num > df.index[2].num
    /\ Len(df.columns) = 2
    /\ notna(df.values[1][1])

IsPlot(call) == call.fn = "plot"

IsTitle(call) == call.fn = "title"

\* C9: for an existing column the plotting calls get three series over the
\* index, the column and its moving averages over 7 and 30, and the title
\* given or the default one; for another column the call fails by the
\* column-name check before any plotting call
C9_TrendHandoff ==
    last.op = "display_trend"
    => IF Existing(last.column_name)
       THEN LET col == Column(data, last.column_name)
                plots == SelectSeq(last.calls, IsPlot)
                titles == SelectSeq(last.calls, IsTitle)
            IN  /\ Len(plots) = 3
                /\ \A k \in 1..3 : plots[k].x = data.index
                /\ plots[1].y = col
                /\ Return(plots[2].y) = rolling_mean(col, 7)
                /\ Return(plots[3].y) = rolling_mean(col, 30)
                /\ Len(titles) = 1
                /\ titles[1].label = IF last.title = NoTitle
                                     THEN <<"Trend analysis of ", last.column_name>>
                                     ELSE last.title
       ELSE IsError("ValueError") /\ last.calls = <<>>

\* C10: the labels of a report are nested, monthly only with weekly and
\* weekly only with daily, and at most 2 non-null entries give the empty
\* report
C10_NestedLabels ==
    \A name \in Range(column_list) :
        DetectedOn(name)
        => /\ last.outcome.kind = "return"
           /\ "monthly" \in DOMAIN last.outcome.value
                => "weekly" \in DOMAIN last.outcome.value
           /\ "weekly" \in DOMAIN last.outcome.value
                => "daily" \in DOMAIN last.outcome.value
           /\ NonNull(Column(data, name)) <= 2 => DOMAIN last.outcome.value = {}

\* a report with the monthly label
C10_Witness ==
    \E name \in Range(column_list) :
        /\ DetectedOn(name)
        /\ last.outcome.kind = "return"
        /\ "monthly" \in DOMAIN last.outcome.value

====
